---- MODULE Spec2Model ----
(***************************************************************************)
(* State-machine model of the account ledger and commerce engine of the    *)
(* Telegram shop bot in src/main.py.                                       *)
(*                                                                         *)
(* The SQLite tables are the variables users .. daily_scratch, the aiogram *)
(* FSM storage is fsm, and run holds the handler invocations in flight.    *)
(* aiogram handles every update in a task of its own, so handlers          *)
(* interleave at their await points: a handler is split into one step per  *)
(* database read and one step for the statements it commits together.      *)
(* Every handler opens a connection of its own; the statements between the *)
(* first write and commit() become visible to other connections together,  *)
(* and a handler that raises before commit() leaves the database as it     *)
(* was (the connection closes and the writes are rolled back).             *)
(***************************************************************************)
EXTENDS Integers, Sequences, FiniteSets, TLC

----------------------------------------------------------------------------
(* Bounds of the model *)

\* The clock counts ticks; a calendar day has TicksPerDay ticks.
TicksPerDay == 2
\* The clock stops at MaxTime.
MaxTime == 3
\* At most MaxTx rows in the transactions table.
MaxTx == 3
\* At most MaxOrders rows in the orders table.
MaxOrders == 2
\* The administrator moves balances within -MaxBalance .. MaxBalance.
MaxBalance == 10

\* Telegram ids of the senders of updates.
UserIds == {1, 2}
\* Slots for handler invocations in flight.
Slots == {1, 2}
\* products.id values (AUTOINCREMENT: handed out in order, never reused).
ProdIds == {1}
\* Promo codes the administrator or a user may type.
Codes == {"WELCOME5"}
\* tasks.id values.
TaskIds == {1}

----------------------------------------------------------------------------
(* Values *)

\* None / no row.
Nil == [nil |-> TRUE]

\* float(text): the texts of the model and the numbers they denote.
IsFloat(s) == s \in {"10", "5", "-5"}
Float(s) == CASE s = "10" -> 10
              [] s = "5" -> 5
              [] s = "-5" -> 0 - 5
              [] OTHER -> 0

\* No row in daily_bonus / daily_scratch for the user.
NoDate == 0 - 1

\* date.today() at clock value t.
DateOf(t) == t \div TicksPerDay

\* state.update_data(k = v) on the FSM data dict d.
UpdateData(d, k, v) == [x \in (DOMAIN d) \cup {k} |-> IF x = k THEN v ELSE d[x]]

\* An FSM entry after state.clear().
Cleared == [state |-> "none", data |-> <<>>]

\* A slot with no handler in it.
Idle == [h |-> "idle", pc |-> "idle", uid |-> 0, arg |-> 0, code |-> "",
         today |-> 0, user |-> Nil, row |-> Nil, amount |-> 0, res |-> "none"]

VARIABLES
    settings,         \* settings table: key -> value (text)
    users,            \* users table: user_id -> row or Nil
    products,         \* products table: id -> row or Nil
    next_prod_id,     \* the AUTOINCREMENT counter of products
    orders,           \* orders table, in id order
    transactions,     \* transactions table, in id order
    tasks,            \* tasks table: id -> row or Nil
    completed_tasks,  \* completed_tasks table: set of <<user_id, task_id>>
    promos,           \* promos table: code -> row or Nil
    promo_usage,      \* promo_usage table: set of <<user_id, code>>
    daily_bonus,      \* daily_bonus table: user_id -> last_claim or NoDate
    daily_scratch,    \* daily_scratch table: user_id -> last_scratch or NoDate
    fsm,              \* aiogram MemoryStorage: user_id -> [state, data]
    run,              \* handler invocations: slot -> frame
    now               \* the clock

shopTables == <<products, next_prod_id, orders>>
rewardTables == <<tasks, completed_tasks, promos, promo_usage, daily_bonus, daily_scratch>>
db == <<settings, users, transactions, shopTables, rewardTables>>
vars == <<db, fsm, run, now>>

----------------------------------------------------------------------------
(* init_db *)

defaults == [captcha_enabled |-> "1", shop_enabled |-> "1",
             referral_reward |-> "5", daily_bonus_enabled |-> "1",
             daily_bonus_amount |-> "10", scratch_enabled |-> "1",
             scratch_rewards |-> "5,10"]

Init ==
    /\ settings = defaults
    /\ users = [u \in UserIds |-> Nil]
    /\ products = [p \in ProdIds |-> Nil]
    /\ next_prod_id = 1
    /\ orders = <<>>
    /\ transactions = <<>>
    /\ tasks = [k \in TaskIds |-> Nil]
    /\ completed_tasks = {}
    /\ promos = [c \in Codes |-> Nil]
    /\ promo_usage = {}
    /\ daily_bonus = [u \in UserIds |-> NoDate]
    /\ daily_scratch = [u \in UserIds |-> NoDate]
    /\ fsm = [u \in UserIds |-> Cleared]
    /\ run = [t \in Slots |-> Idle]
    /\ now = 0

----------------------------------------------------------------------------
(* Helpers shared by the handlers *)

\* A slot with no handler in flight.
Free(t) == run[t].pc \in {"idle", "done"}

\* The slot that takes the next update: the first one with no handler in flight.
Takes(t) == Free(t) /\ \A t2 \in Slots : t2 < t => ~Free(t2)

\* No handler is in flight.
Quiet == \A t \in Slots : Free(t)

\* The frame of a handler that has returned or raised with outcome r: its
\* locals are gone, the update it handled and the outcome are kept.
Finish(f, r) == [Idle EXCEPT !.h = f.h, !.pc = "done", !.uid = f.uid, !.arg = f.arg,
                             !.code = f.code, !.today = f.today, !.res = r]

\* UPDATE users SET balance = balance + amount WHERE user_id = u
\* (no row matches when the account does not exist).
AddBalance(tbl, u, amount) ==
    IF u \in DOMAIN tbl /\ tbl[u] # Nil
    THEN [tbl EXCEPT ![u].balance = @ + amount]
    ELSE tbl

\* INSERT INTO transactions (user_id, amount, type, description); created_at
\* defaults to CURRENT_TIMESTAMP.
TxRow(u, amount, type, description) ==
    [user_id |-> u, amount |-> amount, type |-> type,
     description |-> description, created_at |-> now]

\* A frame for handler h, entered at pc, for an update sent by u.
Enter(h, pc, u) == [Idle EXCEPT !.h = h, !.pc = pc, !.uid = u]

\* The slot t is at pc of handler h.
At(t, h, pc) == run[t].h = h /\ run[t].pc = pc

\* A text message that is no command reaches the handlers registered after
\* process_captcha only when the sender is not in the captcha state.
PastCaptcha(u) == fsm[u].state # "captcha"

\* The clock advances.
Tick ==
    /\ now < MaxTime
    /\ now' = now + 1
    /\ UNCHANGED <<db, fsm, run>>

----------------------------------------------------------------------------
(* /start: cmd_start and add_user *)

\* The update "/start" or "/start <ref>" from u (ref = 0: no argument). Without
\* an argument, or with the sender's own id, nothing is read before add_user.
cmd_start(t, u, ref) ==
    /\ Takes(t)
    /\ run' = [run EXCEPT ![t] =
                 IF ref = 0 \/ ref = u
                 THEN Enter("cmd_start", "au_select", u)
                 ELSE [Enter("cmd_start", "s_ref", u) EXCEPT !.arg = ref]]
    /\ UNCHANGED <<db, fsm, now>>

\* Mutant of cmd_start_ref: the argument is taken as referrer_id without
\* get_user(ref).
cmd_start_ref_Unchecked(t) ==
    /\ At(t, "cmd_start", "s_ref")
    /\ run' = [run EXCEPT ![t].pc = "au_select"]
    /\ UNCHANGED <<db, fsm, now>>

\* referrer_id = ref when get_user(ref) finds a row, None (0) otherwise.
cmd_start_ref(t) ==
    /\ At(t, "cmd_start", "s_ref")
    /\ LET f == run[t]
           referrer_id == IF f.arg \in UserIds /\ users[f.arg] # Nil THEN f.arg ELSE 0
       IN run' = [run EXCEPT ![t] = [f EXCEPT !.arg = referrer_id, !.pc = "au_select"]]
    /\ UNCHANGED <<db, fsm, now>>

\* add_user: SELECT user_id FROM users; return when the row exists.
add_user_select(t) ==
    /\ At(t, "cmd_start", "au_select")
    /\ run' = [run EXCEPT ![t].pc = IF users[run[t].uid] # Nil THEN "s_captcha"
                                    ELSE "au_commit"]
    /\ UNCHANGED <<db, fsm, now>>

\* Mutant of UserKeyConflict: users has no primary key.
UserKeyConflict_NoKey(u) == FALSE

\* user_id INTEGER PRIMARY KEY of users: the INSERT raises IntegrityError when
\* the row exists.
UserKeyConflict(u) == users[u] # Nil

\* add_user: INSERT INTO users, the referral credit and its transaction row,
\* committed together. user_id is the PRIMARY KEY of users.
add_user_commit(t) ==
    /\ At(t, "cmd_start", "au_commit")
    /\ LET f == run[t]
           u == f.uid
           referrer_id == f.arg
           text == settings.referral_reward
           reward == Float(text)
           row == [balance |-> 0, total_spent |-> 0, referrer_id |-> referrer_id,
                   banned |-> 0]
       IN IF UserKeyConflict(u)
          THEN /\ run' = [run EXCEPT ![t] = Finish(f, "IntegrityError")]
               /\ UNCHANGED <<users, transactions>>
          ELSE IF referrer_id = 0
          THEN /\ users' = [users EXCEPT ![u] = row]
               /\ run' = [run EXCEPT ![t].pc = "s_captcha"]
               /\ UNCHANGED transactions
          ELSE IF ~IsFloat(text)
          THEN /\ run' = [run EXCEPT ![t] = Finish(f, "ValueError")]
               /\ UNCHANGED <<users, transactions>>
          ELSE /\ Len(transactions) < MaxTx
               /\ users' = AddBalance([users EXCEPT ![u] = row], referrer_id, reward)
               /\ transactions' = Append(transactions,
                                         TxRow(referrer_id, reward, "referral", "Referral bonus"))
               /\ run' = [run EXCEPT ![t].pc = "s_captcha"]
    /\ UNCHANGED <<settings, shopTables, rewardTables, fsm, now>>

\* cmd_start after add_user: the captcha gate.
cmd_start_captcha(t) ==
    /\ At(t, "cmd_start", "s_captcha")
    /\ LET f == run[t]
       IN /\ fsm' = IF settings.captcha_enabled = "1"
                    THEN [fsm EXCEPT ![f.uid].state = "captcha"]
                    ELSE fsm
          /\ run' = [run EXCEPT ![t] = Finish(f, "ok")]
    /\ UNCHANGED <<db, now>>

\* process_captcha with the right answer: state.clear().
process_captcha(u) ==
    /\ fsm[u].state = "captcha"
    /\ fsm' = [fsm EXCEPT ![u] = Cleared]
    /\ UNCHANGED <<db, run, now>>

----------------------------------------------------------------------------
(* Settings: admin_setting_ask and admin_setting_save *)

\* admin_setting_ask: the callback set_<key>.
admin_setting_ask(u, key) ==
    /\ fsm' = [fsm EXCEPT ![u] = [state |-> "waiting_for_setting_value",
                                  data |-> UpdateData(fsm[u].data, "setting_key", key)]]
    /\ UNCHANGED <<db, run, now>>

\* admin_setting_save: update_setting(key, message.text), state.clear().
admin_setting_save(u, value) ==
    /\ fsm[u].state = "waiting_for_setting_value"
    /\ settings' = [settings EXCEPT ![fsm[u].data.setting_key] = value]
    /\ fsm' = [fsm EXCEPT ![u] = Cleared]
    /\ UNCHANGED <<users, transactions, shopTables, rewardTables, run, now>>

----------------------------------------------------------------------------
(* Daily bonus: daily_bonus *)

\* The update with text "Daily Bonus" from u.
daily_bonus_entry(t, u) ==
    /\ Takes(t)
    /\ PastCaptcha(u)
    /\ run' = [run EXCEPT ![t] = Enter("daily_bonus", "d_enabled", u)]
    /\ UNCHANGED <<db, fsm, now>>

\* get_setting("daily_bonus_enabled"); today = date.today().
daily_bonus_enabled(t) ==
    /\ At(t, "daily_bonus", "d_enabled")
    /\ run' = [run EXCEPT ![t] =
                 IF settings.daily_bonus_enabled # "1"
                 THEN Finish(@, "disabled")
                 ELSE [@ EXCEPT !.today = DateOf(now), !.pc = "d_select"]]
    /\ UNCHANGED <<db, fsm, now>>

\* Mutants of DailyAlreadyClaimed: the check is skipped; any earlier claim
\* counts, whatever its day.
DailyAlreadyClaimed_Skipped(last_claim, today) == FALSE
DailyAlreadyClaimed_Ever(last_claim, today) == last_claim # NoDate

\* row and row[0] == today
DailyAlreadyClaimed(last_claim, today) == last_claim # NoDate /\ last_claim = today

\* SELECT last_claim FROM daily_bonus WHERE user_id = ?
daily_bonus_select(t) ==
    /\ At(t, "daily_bonus", "d_select")
    /\ run' = [run EXCEPT ![t] =
                 IF DailyAlreadyClaimed(daily_bonus[@.uid], @.today)
                 THEN Finish(@, "already")
                 ELSE [@ EXCEPT !.pc = "d_amount"]]
    /\ UNCHANGED <<db, fsm, now>>

\* amount = float(get_setting("daily_bonus_amount"))
daily_bonus_amount(t) ==
    /\ At(t, "daily_bonus", "d_amount")
    /\ run' = [run EXCEPT ![t] =
                 IF IsFloat(settings.daily_bonus_amount)
                 THEN [@ EXCEPT !.amount = Float(settings.daily_bonus_amount),
                                !.pc = "d_commit"]
                 ELSE Finish(@, "ValueError")]
    /\ UNCHANGED <<db, fsm, now>>

\* Mutant of daily_bonus_commit: the transaction row replaces the rows the
\* account had (INSERT OR REPLACE keyed by user_id).
daily_bonus_commit_Replacing(t) ==
    /\ At(t, "daily_bonus", "d_commit")
    /\ LET f == run[t]
       IN /\ users' = AddBalance(users, f.uid, f.amount)
          /\ daily_bonus' = [daily_bonus EXCEPT ![f.uid] = f.today]
          /\ transactions' =
                Append(SelectSeq(transactions, LAMBDA r : r.user_id # f.uid),
                       TxRow(f.uid, f.amount, "daily_bonus", "Daily bonus"))
          /\ run' = [run EXCEPT ![t] = Finish(f, "credited")]
    /\ UNCHANGED <<settings, shopTables, tasks, completed_tasks, promos, promo_usage,
                   daily_scratch, fsm, now>>

\* UPDATE users, INSERT OR REPLACE INTO daily_bonus, INSERT INTO transactions,
\* commit.
daily_bonus_commit(t) ==
    /\ At(t, "daily_bonus", "d_commit")
    /\ Len(transactions) < MaxTx
    /\ LET f == run[t]
       IN /\ users' = AddBalance(users, f.uid, f.amount)
          /\ daily_bonus' = [daily_bonus EXCEPT ![f.uid] = f.today]
          /\ transactions' = Append(transactions,
                                    TxRow(f.uid, f.amount, "daily_bonus", "Daily bonus"))
          /\ run' = [run EXCEPT ![t] = Finish(f, "credited")]
    /\ UNCHANGED <<settings, shopTables, tasks, completed_tasks, promos, promo_usage,
                   daily_scratch, fsm, now>>

----------------------------------------------------------------------------
(* Scratch card: scratch_card *)

\* The update with text "Scratch Card" from u.
scratch_card_entry(t, u) ==
    /\ Takes(t)
    /\ PastCaptcha(u)
    /\ run' = [run EXCEPT ![t] = Enter("scratch_card", "sc_enabled", u)]
    /\ UNCHANGED <<db, fsm, now>>

\* get_setting("scratch_enabled"); today = date.today().
scratch_card_enabled(t) ==
    /\ At(t, "scratch_card", "sc_enabled")
    /\ run' = [run EXCEPT ![t] =
                 IF settings.scratch_enabled # "1"
                 THEN Finish(@, "disabled")
                 ELSE [@ EXCEPT !.today = DateOf(now), !.pc = "sc_select"]]
    /\ UNCHANGED <<db, fsm, now>>

\* row and row[0] == today
ScratchAlreadyClaimed(last_scratch, today) ==
    last_scratch # NoDate /\ last_scratch = today

\* SELECT last_scratch FROM daily_scratch WHERE user_id = ?
scratch_card_select(t) ==
    /\ At(t, "scratch_card", "sc_select")
    /\ run' = [run EXCEPT ![t] =
                 IF ScratchAlreadyClaimed(daily_scratch[@.uid], @.today)
                 THEN Finish(@, "already")
                 ELSE [@ EXCEPT !.pc = "sc_rewards"]]
    /\ UNCHANGED <<db, fsm, now>>

\* The numbers a scratch_rewards text lists, when every item between the
\* commas is a number: the texts of the model.
ListsNumbers(s) == s \in {"5,10", "-5", ""}
Listed(s) == CASE s = "5,10" -> {5, 10}
               [] s = "-5" -> {0 - 5}
               [] OTHER -> {}

\* rewards = [float(x.strip()) for x in rewards_str.split(",") if x.strip()],
\* and [5, 10, 15, 20, 25] when a float() raises.
ScratchRewards(s) == IF ListsNumbers(s) THEN Listed(s) ELSE {5, 10, 15, 20, 25}

\* get_setting("scratch_rewards"), the parse, the empty-list check and
\* amount = random.choice(rewards).
scratch_card_rewards(t) ==
    /\ At(t, "scratch_card", "sc_rewards")
    /\ LET rewards == ScratchRewards(settings.scratch_rewards)
       IN IF rewards = {}
          THEN run' = [run EXCEPT ![t] = Finish(@, "no_rewards")]
          ELSE \E amount \in rewards :
                  run' = [run EXCEPT ![t] = [@ EXCEPT !.amount = amount, !.pc = "sc_commit"]]
    /\ UNCHANGED <<db, fsm, now>>

\* UPDATE users, INSERT OR REPLACE INTO daily_scratch, INSERT INTO
\* transactions, commit.
scratch_card_commit(t) ==
    /\ At(t, "scratch_card", "sc_commit")
    /\ Len(transactions) < MaxTx
    /\ LET f == run[t]
       IN /\ users' = AddBalance(users, f.uid, f.amount)
          /\ daily_scratch' = [daily_scratch EXCEPT ![f.uid] = f.today]
          /\ transactions' = Append(transactions,
                                    TxRow(f.uid, f.amount, "scratch", "Daily scratch card"))
          /\ run' = [run EXCEPT ![t] = Finish(f, "credited")]
    /\ UNCHANGED <<settings, shopTables, tasks, completed_tasks, promos, promo_usage,
                   daily_bonus, fsm, now>>

----------------------------------------------------------------------------
(* Promo codes: redeem_promo_ask, redeem_promo_process, the administrator's
   promo creation and deletion *)

\* redeem_promo_ask: the callback redeem_promo.
redeem_promo_ask(u) ==
    /\ fsm' = [fsm EXCEPT ![u].state = "waiting_for_promo"]
    /\ UNCHANGED <<db, run, now>>

\* A text message from u while u is in the state waiting_for_promo.
redeem_promo_process(t, u, code) ==
    /\ Takes(t)
    /\ fsm[u].state = "waiting_for_promo"
    /\ run' = [run EXCEPT ![t] = [Enter("redeem_promo_process", "r_select", u)
                                    EXCEPT !.code = code]]
    /\ UNCHANGED <<db, fsm, now>>

\* promo['expiry_date'] < datetime.now().strftime("%Y-%m-%d"): the days of the
\* model lie before 2099-01-01, the only expiry date the bot writes.
Expired(expiry_date, today) == expiry_date # "" /\ expiry_date # "2099-01-01"

\* Mutant of LimitReached: the usage limit is not checked.
LimitReached_Never(promo) == FALSE

\* promo['max_usage'] != -1 and promo['used_count'] >= promo['max_usage']
LimitReached(promo) == promo.max_usage # (0 - 1) /\ promo.used_count >= promo.max_usage

\* SELECT * FROM promos WHERE code = ?, and the checks on the row read.
redeem_promo_select(t) ==
    /\ At(t, "redeem_promo_process", "r_select")
    /\ LET f == run[t]
           promo == IF f.code \in Codes THEN promos[f.code] ELSE Nil
           failed == IF promo = Nil THEN "invalid"
                     ELSE IF Expired(promo.expiry_date, DateOf(now)) THEN "expired"
                     ELSE IF LimitReached(promo) THEN "limit"
                     ELSE "no"
       IN IF failed # "no"
          THEN /\ run' = [run EXCEPT ![t] = Finish(f, failed)]
               /\ fsm' = [fsm EXCEPT ![f.uid] = Cleared]
          ELSE /\ run' = [run EXCEPT ![t] = [f EXCEPT !.row = promo, !.pc = "r_usage"]]
               /\ UNCHANGED fsm
    /\ UNCHANGED <<db, now>>

\* Mutant of redeem_promo_usage: used_count is raised before the usage row is
\* looked up.
redeem_promo_usage_Counted(t) ==
    /\ At(t, "redeem_promo_process", "r_usage")
    /\ LET f == run[t]
       IN /\ promos' = IF promos[f.code] # Nil
                        THEN [promos EXCEPT ![f.code].used_count = @ + 1]
                        ELSE promos
          /\ IF <<f.uid, f.code>> \in promo_usage
             THEN /\ run' = [run EXCEPT ![t] = Finish(f, "used")]
                  /\ fsm' = [fsm EXCEPT ![f.uid] = Cleared]
             ELSE /\ run' = [run EXCEPT ![t].pc = "r_commit"]
                  /\ UNCHANGED fsm
    /\ UNCHANGED <<settings, users, transactions, shopTables, tasks, completed_tasks,
                   promo_usage, daily_bonus, daily_scratch, now>>

\* SELECT * FROM promo_usage WHERE user_id = ? AND code = ?
redeem_promo_usage(t) ==
    /\ At(t, "redeem_promo_process", "r_usage")
    /\ LET f == run[t]
       IN IF <<f.uid, f.code>> \in promo_usage
          THEN /\ run' = [run EXCEPT ![t] = Finish(f, "used")]
               /\ fsm' = [fsm EXCEPT ![f.uid] = Cleared]
          ELSE /\ run' = [run EXCEPT ![t].pc = "r_commit"]
               /\ UNCHANGED fsm
    /\ UNCHANGED <<db, now>>

\* Mutant of PromoUsageConflict: promo_usage has no primary key.
PromoUsageConflict_NoKey(u, code) == FALSE

\* PRIMARY KEY (user_id, code) of promo_usage: the INSERT raises IntegrityError
\* when the row exists.
PromoUsageConflict(u, code) == <<u, code>> \in promo_usage

\* UPDATE users, UPDATE promos, INSERT INTO promo_usage, INSERT INTO
\* transactions, commit; then state.clear(). An IntegrityError leaves the
\* handler before commit and before state.clear().
redeem_promo_commit(t) ==
    /\ At(t, "redeem_promo_process", "r_commit")
    /\ LET f == run[t]
           promo == f.row
       IN IF PromoUsageConflict(f.uid, f.code)
          THEN /\ run' = [run EXCEPT ![t] = Finish(f, "IntegrityError")]
               /\ UNCHANGED <<users, promos, promo_usage, transactions, fsm>>
          ELSE /\ Len(transactions) < MaxTx
               /\ users' = AddBalance(users, f.uid, promo.reward)
               /\ promos' = IF promos[f.code] # Nil
                            THEN [promos EXCEPT ![f.code].used_count = @ + 1]
                            ELSE promos
               /\ promo_usage' = promo_usage \cup {<<f.uid, f.code>>}
               /\ transactions' = Append(transactions,
                                         TxRow(f.uid, promo.reward, "promo", f.code))
               /\ fsm' = [fsm EXCEPT ![f.uid] = Cleared]
               /\ run' = [run EXCEPT ![t] = Finish(f, "redeemed")]
    /\ UNCHANGED <<settings, shopTables, tasks, completed_tasks, daily_bonus,
                   daily_scratch, now>>

\* admin_create_promo, admin_promo_code, admin_promo_reward: the code and the
\* reward are typed and kept in the FSM data.
admin_promo_reward(u, code, reward) ==
    /\ fsm' = [fsm EXCEPT ![u] =
                 [state |-> "waiting_for_promo_limit",
                  data |-> UpdateData(UpdateData(fsm[u].data, "code", code),
                                      "reward", reward)]]
    /\ UNCHANGED <<db, run, now>>

\* admin_promo_limit: INSERT OR REPLACE INTO promos (code, reward, max_usage,
\* expiry_date); used_count takes its default 0.
admin_promo_limit(u, limit) ==
    /\ fsm[u].state = "waiting_for_promo_limit"
    /\ promos' = [promos EXCEPT ![fsm[u].data.code] =
                    [reward |-> fsm[u].data.reward, max_usage |-> limit,
                     used_count |-> 0, expiry_date |-> "2099-01-01"]]
    /\ fsm' = [fsm EXCEPT ![u] = Cleared]
    /\ UNCHANGED <<settings, users, transactions, shopTables, tasks, completed_tasks,
                   promo_usage, daily_bonus, daily_scratch, run, now>>

\* admin_del_promo: DELETE FROM promos WHERE code = ?
admin_del_promo(code) ==
    /\ promos[code] # Nil
    /\ promos' = [promos EXCEPT ![code] = Nil]
    /\ UNCHANGED <<settings, users, transactions, shopTables, tasks, completed_tasks,
                   promo_usage, daily_bonus, daily_scratch, fsm, run, now>>

----------------------------------------------------------------------------
(* The shop: buy_product, process_purchase, receive_address *)

\* A handler of the shop returns or raises: its locals are gone.
Return(f, r) == [Idle EXCEPT !.h = f.h, !.pc = "done", !.res = r]

\* The callback buy_<prod_id> from u.
buy_product(t, u, prod_id) ==
    /\ Takes(t)
    /\ run' = [run EXCEPT ![t] = [Enter("buy_product", "b_prod", u) EXCEPT !.arg = prod_id]]
    /\ UNCHANGED <<db, fsm, now>>

\* SELECT * FROM products WHERE id = ?
SelectProduct(prod_id) == IF prod_id \in ProdIds THEN products[prod_id] ELSE Nil

\* buy_product: the product row is read.
buy_product_prod(t) ==
    /\ At(t, "buy_product", "b_prod")
    /\ run' = [run EXCEPT ![t] = [run[t] EXCEPT !.row = SelectProduct(run[t].arg), !.pc = "b_user"]]
    /\ UNCHANGED <<db, fsm, now>>

\* prod['stock'] != -1 and prod['stock'] <= 0
OutOfStock(prod) == prod.stock # 0 - 1 /\ prod.stock <= 0

\* Mutant of buy_product_user: a physical product is debited when the address
\* is asked for.
buy_product_user_DebitFirst(t) ==
    /\ At(t, "buy_product", "b_user")
    /\ LET f == run[t]
           prod == f.row
           user == users[f.uid]
           failed == IF prod = Nil THEN "not_found"
                     ELSE IF OutOfStock(prod) THEN "out_of_stock"
                     ELSE IF user = Nil THEN "TypeError"
                     ELSE IF user.balance < prod.price THEN "insufficient"
                     ELSE "no"
       IN IF failed # "no"
          THEN /\ run' = [run EXCEPT ![t] = Return(f, failed)]
               /\ UNCHANGED <<fsm, users>>
          ELSE IF prod.type = "physical"
          THEN /\ fsm' = [fsm EXCEPT ![f.uid] =
                            [state |-> "waiting_for_address",
                             data |-> UpdateData(fsm[f.uid].data, "buy_prod_id", f.arg)]]
               /\ users' = AddBalance(users, f.uid, 0 - prod.price)
               /\ run' = [run EXCEPT ![t] = Return(f, "ask_address")]
          ELSE /\ run' = [run EXCEPT ![t] = [f EXCEPT !.user = user, !.pc = "process_purchase"]]
               /\ UNCHANGED <<fsm, users>>
    /\ UNCHANGED <<settings, transactions, shopTables, rewardTables, now>>

\* buy_product: the user row is read, then the checks on the two rows; a
\* physical product asks for the address, any other goes to process_purchase.
buy_product_user(t) ==
    /\ At(t, "buy_product", "b_user")
    /\ LET f == run[t]
           prod == f.row
           user == users[f.uid]
           failed == IF prod = Nil THEN "not_found"
                     ELSE IF OutOfStock(prod) THEN "out_of_stock"
                     ELSE IF user = Nil THEN "TypeError"
                     ELSE IF user.balance < prod.price THEN "insufficient"
                     ELSE "no"
       IN IF failed # "no"
          THEN /\ run' = [run EXCEPT ![t] = Return(f, failed)]
               /\ UNCHANGED fsm
          ELSE IF prod.type = "physical"
          THEN /\ fsm' = [fsm EXCEPT ![f.uid] =
                            [state |-> "waiting_for_address",
                             data |-> UpdateData(fsm[f.uid].data, "buy_prod_id", f.arg)]]
               /\ run' = [run EXCEPT ![t] = Return(f, "ask_address")]
          ELSE /\ run' = [run EXCEPT ![t] = [f EXCEPT !.user = user, !.pc = "process_purchase"]]
               /\ UNCHANGED fsm
    /\ UNCHANGED <<db, now>>

\* A text message from u while u is in the state waiting_for_address.
receive_address(t, u) ==
    /\ Takes(t)
    /\ fsm[u].state = "waiting_for_address"
    /\ run' = [run EXCEPT ![t] = [Enter("receive_address", "ra_prod", u)
                                    EXCEPT !.arg = fsm[u].data.buy_prod_id,
                                           !.code = "address"]]
    /\ UNCHANGED <<db, fsm, now>>

\* receive_address: the product row is read.
receive_address_prod(t) ==
    /\ At(t, "receive_address", "ra_prod")
    /\ run' = [run EXCEPT ![t] = [run[t] EXCEPT !.row = SelectProduct(run[t].arg), !.pc = "ra_user"]]
    /\ UNCHANGED <<db, fsm, now>>

\* receive_address: the user row is read; process_purchase is called with no
\* check on either row.
receive_address_user(t) ==
    /\ At(t, "receive_address", "ra_user")
    /\ run' = [run EXCEPT ![t] = [run[t] EXCEPT !.user = users[run[t].uid], !.pc = "process_purchase"]]
    /\ UNCHANGED <<db, fsm, now>>

\* Mutant of UserBound: process_purchase sees the user row its caller read.
UserBound_FromCaller == TRUE

\* Whether the name user is bound where process_purchase reads it: it is no
\* parameter and no local of process_purchase and the module assigns no global
\* of that name, so user['balance'] raises NameError.
UserBound == FALSE

\* The order row of a purchase.
OrderRow(u, prod_id, prod, address) ==
    LET status == IF prod.type \in {"digital", "file"} THEN "delivered" ELSE "pending"
    IN [user_id |-> u, product_id |-> prod_id, status |-> status,
        data |-> IF status = "delivered" THEN prod.content
                 ELSE IF address # "" THEN address
                 ELSE "Waiting for manual processing"]

\* Mutant of process_purchase: the user row is passed in, and the order row
\* is forgotten.
process_purchase_NoOrder(t) ==
    /\ run[t].pc = "process_purchase"
    /\ run[t].user # Nil /\ run[t].row # Nil
    /\ Len(transactions) < MaxTx
    /\ LET f == run[t]
       IN /\ users' = [users EXCEPT ![f.uid].balance = f.user.balance - f.row.price,
                                    ![f.uid].total_spent = @ + f.row.price]
          /\ transactions' = Append(transactions,
                                    TxRow(f.uid, 0 - f.row.price, "purchase", ToString(f.arg)))
          /\ run' = [run EXCEPT ![t] = Return(f, "purchased")]
    /\ UNCHANGED <<settings, shopTables, rewardTables, fsm, now>>

\* Mutant of process_purchase: the stock decrement is committed on its own and
\* the call fails before the debit.
process_purchase_StockOnly(t) ==
    /\ run[t].pc = "process_purchase"
    /\ run[t].row # Nil /\ run[t].row.stock >= 1 /\ products[run[t].arg] # Nil
    /\ products' = [products EXCEPT ![run[t].arg].stock = run[t].row.stock - 1]
    /\ run' = [run EXCEPT ![t] = Return(run[t], "NameError")]
    /\ UNCHANGED <<settings, users, transactions, next_prod_id, orders, rewardTables,
                   fsm, now>>

\* Mutant of process_purchase: the user row is passed in and the stock is
\* written whatever its value.
process_purchase_AlwaysDecrement(t) ==
    /\ run[t].pc = "process_purchase"
    /\ run[t].user # Nil /\ run[t].row # Nil /\ products[run[t].arg] # Nil
    /\ Len(transactions) < MaxTx /\ Len(orders) < MaxOrders
    /\ LET f == run[t]
       IN /\ users' = [users EXCEPT ![f.uid].balance = f.user.balance - f.row.price,
                                    ![f.uid].total_spent = @ + f.row.price]
          /\ products' = [products EXCEPT ![f.arg].stock = f.row.stock - 1]
          /\ orders' = Append(orders, OrderRow(f.uid, f.arg, f.row, f.code))
          /\ transactions' = Append(transactions,
                                    TxRow(f.uid, 0 - f.row.price, "purchase", ToString(f.arg)))
          /\ run' = [run EXCEPT ![t] = Return(f, "purchased")]
    /\ UNCHANGED <<settings, next_prod_id, rewardTables, fsm, now>>

\* process_purchase, called by buy_product and by receive_address: the new
\* balance and stock are computed from the rows read by the caller, then
\* UPDATE users, UPDATE products, INSERT INTO orders, INSERT INTO transactions
\* and commit; receive_address goes on to state.clear() when the call returns.
process_purchase(t) ==
    /\ run[t].pc = "process_purchase"
    /\ LET f == run[t]
           prod == f.row
           user == f.user
       IN IF ~UserBound
          THEN /\ run' = [run EXCEPT ![t] = Return(f, "NameError")]
               /\ UNCHANGED <<users, products, orders, transactions, fsm>>
          ELSE IF user = Nil \/ prod = Nil
          THEN /\ run' = [run EXCEPT ![t] = Return(f, "TypeError")]
               /\ UNCHANGED <<users, products, orders, transactions, fsm>>
          ELSE LET new_balance == user.balance - prod.price
                   new_stock == IF prod.stock # 0 - 1 THEN prod.stock - 1 ELSE 0 - 1
               IN /\ Len(transactions) < MaxTx
                  /\ Len(orders) < MaxOrders
                  /\ users' = IF users[f.uid] # Nil
                              THEN [users EXCEPT ![f.uid].balance = new_balance,
                                                 ![f.uid].total_spent = @ + prod.price]
                              ELSE users
                  /\ products' = IF new_stock # 0 - 1 /\ products[f.arg] # Nil
                                 THEN [products EXCEPT ![f.arg].stock = new_stock]
                                 ELSE products
                  /\ orders' = Append(orders, OrderRow(f.uid, f.arg, prod, f.code))
                  /\ transactions' = Append(transactions,
                                            TxRow(f.uid, 0 - prod.price, "purchase",
                                                  ToString(f.arg)))
                  /\ fsm' = IF f.h = "receive_address"
                            THEN [fsm EXCEPT ![f.uid] = Cleared]
                            ELSE fsm
                  /\ run' = [run EXCEPT ![t] = Return(f, "purchased")]
    /\ UNCHANGED <<settings, next_prod_id, rewardTables, now>>

----------------------------------------------------------------------------
(* The administrator: products and balances *)

\* int(text): the texts of the model and the integers they denote.
IsInt(s) == s \in {"-2", "-1", "0", "1", "2"}
Int_(s) == CASE s = "-2" -> 0 - 2
             [] s = "-1" -> 0 - 1
             [] s = "1" -> 1
             [] s = "2" -> 2
             [] OTHER -> 0

\* admin_add_prod_start .. admin_prod_content: name, description, price, type
\* and content are typed and kept in the FSM data; the price must parse as a
\* float and the type be one of the three.
admin_prod_content(u, price, type) ==
    /\ IsFloat(price)
    /\ type \in {"digital", "file", "physical"}
    /\ fsm' = [fsm EXCEPT ![u] =
                 [state |-> "waiting_for_product_stock",
                  data |-> UpdateData(UpdateData(UpdateData(fsm[u].data,
                              "price", Float(price)), "type", type),
                              "content", IF type = "physical" THEN "Physical Item"
                                         ELSE "content")]]
    /\ UNCHANGED <<db, run, now>>

\* admin_prod_stock: stock = int(message.text), INSERT INTO products; a text
\* that is no integer changes nothing.
admin_prod_stock(u, text) ==
    /\ fsm[u].state = "waiting_for_product_stock"
    /\ IF IsInt(text)
       THEN /\ next_prod_id \in ProdIds
            /\ products' = [products EXCEPT ![next_prod_id] =
                              [type |-> fsm[u].data.type, price |-> fsm[u].data.price,
                               content |-> fsm[u].data.content, stock |-> Int_(text)]]
            /\ next_prod_id' = next_prod_id + 1
            /\ fsm' = [fsm EXCEPT ![u] = Cleared]
       ELSE UNCHANGED <<products, next_prod_id, fsm>>
    /\ UNCHANGED <<settings, users, transactions, orders, rewardTables, run, now>>

\* admin_edit_prod and admin_edit_field_chosen: the product and the field to
\* edit are kept in the FSM data.
admin_edit_field_chosen(u, prod_id, field) ==
    /\ fsm' = [fsm EXCEPT ![u] =
                 [state |-> "waiting_for_product_edit_value",
                  data |-> UpdateData(UpdateData(fsm[u].data, "edit_prod_id", prod_id),
                                      "edit_field", field)]]
    /\ UNCHANGED <<db, run, now>>

\* admin_update_product for the field stock: value = int(message.text),
\* UPDATE products SET stock = ?; a text that is no integer changes nothing.
admin_update_product(u, text) ==
    /\ fsm[u].state = "waiting_for_product_edit_value"
    /\ fsm[u].data.edit_field = "stock"
    /\ IF IsInt(text)
       THEN /\ products' = IF products[fsm[u].data.edit_prod_id] # Nil
                           THEN [products EXCEPT ![fsm[u].data.edit_prod_id].stock = Int_(text)]
                           ELSE products
            /\ fsm' = [fsm EXCEPT ![u] = Cleared]
       ELSE UNCHANGED <<products, fsm>>
    /\ UNCHANGED <<settings, users, transactions, next_prod_id, orders, rewardTables,
                   run, now>>

\* The balances explored stay within MaxBalance.
WithinBalance(u, amount) ==
    users[u] # Nil => /\ users[u].balance + amount <= MaxBalance
                      /\ users[u].balance + amount >= 0 - MaxBalance

\* admin_give_balance_ask: the callback admin_give_bal_<user_id>.
admin_give_balance_ask(u, target) ==
    /\ fsm' = [fsm EXCEPT ![u] =
                 [state |-> "waiting_for_balance_change",
                  data |-> UpdateData(fsm[u].data, "target_user_id", target)]]
    /\ UNCHANGED <<db, run, now>>

\* admin_give_balance_process: amount = float(message.text), UPDATE users SET
\* balance = balance + amount; a text that is no number changes nothing.
admin_give_balance_process(u, text) ==
    /\ fsm[u].state = "waiting_for_balance_change"
    /\ IF IsFloat(text)
       THEN /\ WithinBalance(fsm[u].data.target_user_id, Float(text))
            /\ users' = AddBalance(users, fsm[u].data.target_user_id, Float(text))
            /\ fsm' = [fsm EXCEPT ![u] = Cleared]
       ELSE UNCHANGED <<users, fsm>>
    /\ UNCHANGED <<settings, transactions, shopTables, rewardTables, run, now>>

\* admin_ban_user: the callback admin_ban_<user_id>; SELECT banned, then
\* UPDATE users SET banned = the other value (no row matches when the account
\* does not exist).
admin_ban_user(target) ==
    /\ users' = IF users[target] # Nil
                THEN [users EXCEPT ![target].banned = IF @ = 0 THEN 1 ELSE 0]
                ELSE users
    /\ UNCHANGED <<settings, transactions, shopTables, rewardTables, fsm, run, now>>

\* admin_deliver_order: the callback admin_deliver_order_<order_id>; UPDATE
\* orders SET status = 'delivered' WHERE id = ?, whatever the status was (no
\* row matches when the order does not exist).
admin_deliver_order(order_id) ==
    /\ orders' = [i \in DOMAIN orders |->
                     IF i = order_id THEN [orders[i] EXCEPT !.status = "delivered"]
                     ELSE orders[i]]
    /\ UNCHANGED <<settings, users, products, next_prod_id, transactions, rewardTables,
                   fsm, run, now>>

----------------------------------------------------------------------------
(* Tasks: do_task and the administrator's task creation *)

\* admin_create_task, admin_task_desc, admin_task_link: the description and
\* the link are typed and kept in the FSM data.
admin_task_link(u, desc) ==
    /\ fsm' = [fsm EXCEPT ![u] =
                 [state |-> "waiting_for_task_reward",
                  data |-> UpdateData(UpdateData(fsm[u].data, "desc", desc),
                                      "link", "None")]]
    /\ UNCHANGED <<db, run, now>>

\* admin_task_reward: reward = float(message.text), INSERT INTO tasks with the
\* next id; a text that is no number changes nothing.
admin_task_reward(u, text) ==
    /\ fsm[u].state = "waiting_for_task_reward"
    /\ IF IsFloat(text)
       THEN /\ \E k \in TaskIds :
                 /\ tasks[k] = Nil
                 /\ \A k2 \in TaskIds : k2 < k => tasks[k2] # Nil
                 /\ tasks' = [tasks EXCEPT ![k] = [description |-> fsm[u].data.desc,
                                                   reward |-> Float(text)]]
            /\ fsm' = [fsm EXCEPT ![u] = Cleared]
       ELSE UNCHANGED <<tasks, fsm>>
    /\ UNCHANGED <<settings, users, transactions, shopTables, completed_tasks, promos,
                   promo_usage, daily_bonus, daily_scratch, run, now>>

\* The callback do_task_<task_id> from u.
do_task(t, u, task_id) ==
    /\ Takes(t)
    /\ run' = [run EXCEPT ![t] = [Enter("do_task", "t_task", u) EXCEPT !.arg = task_id]]
    /\ UNCHANGED <<db, fsm, now>>

\* SELECT * FROM tasks WHERE id = ?
do_task_task(t) ==
    /\ At(t, "do_task", "t_task")
    /\ LET f == run[t]
           task == IF f.arg \in TaskIds THEN tasks[f.arg] ELSE Nil
       IN run' = [run EXCEPT ![t] = IF task = Nil THEN Finish(f, "not_found")
                                    ELSE [f EXCEPT !.row = task, !.pc = "t_completed"]]
    /\ UNCHANGED <<db, fsm, now>>

\* SELECT * FROM completed_tasks WHERE user_id = ? AND task_id = ?
do_task_completed(t) ==
    /\ At(t, "do_task", "t_completed")
    /\ run' = [run EXCEPT ![t] = IF <<run[t].uid, run[t].arg>> \in completed_tasks
                                 THEN Finish(run[t], "already")
                                 ELSE [run[t] EXCEPT !.pc = "t_commit"]]
    /\ UNCHANGED <<db, fsm, now>>

\* Mutant of TaskKeyConflict: completed_tasks has no primary key.
TaskKeyConflict_NoKey(u, task_id) == FALSE

\* PRIMARY KEY (user_id, task_id) of completed_tasks: the INSERT raises
\* IntegrityError when the row exists.
TaskKeyConflict(u, task_id) == <<u, task_id>> \in completed_tasks

\* INSERT INTO completed_tasks, UPDATE users, INSERT INTO transactions, commit.
do_task_commit(t) ==
    /\ At(t, "do_task", "t_commit")
    /\ LET f == run[t]
           task == f.row
       IN IF TaskKeyConflict(f.uid, f.arg)
          THEN /\ run' = [run EXCEPT ![t] = Finish(f, "IntegrityError")]
               /\ UNCHANGED <<users, completed_tasks, transactions>>
          ELSE /\ Len(transactions) < MaxTx
               /\ completed_tasks' = completed_tasks \cup {<<f.uid, f.arg>>}
               /\ users' = AddBalance(users, f.uid, task.reward)
               /\ transactions' = Append(transactions,
                                         TxRow(f.uid, task.reward, "task", task.description))
               /\ run' = [run EXCEPT ![t] = Finish(f, "completed")]
    /\ UNCHANGED <<settings, shopTables, tasks, promos, promo_usage, daily_bonus,
                   daily_scratch, fsm, now>>

----------------------------------------------------------------------------
(* Specifications *)

\* What the administrator may type for a setting.
SettingTexts(key) ==
    CASE key = "daily_bonus_enabled" -> {"1", "0"}
      [] key = "daily_bonus_amount" -> {"10", "abc"}
      [] OTHER -> {}

\* The daily bonus under concurrent updates.
DailyUsers == {1}
DailyKeys == {"daily_bonus_enabled", "daily_bonus_amount"}

\* The steps of the handlers of /start and of the daily bonus.
DailySteps ==
    \/ \E t \in Slots : add_user_select(t)
    \/ \E t \in Slots : add_user_commit(t)
    \/ \E t \in Slots : cmd_start_captcha(t)
    \/ \E t \in Slots : daily_bonus_enabled(t)
    \/ \E t \in Slots : daily_bonus_select(t)
    \/ \E t \in Slots : daily_bonus_amount(t)
    \/ \E t \in Slots : daily_bonus_commit(t)

\* The daily bonus under concurrent updates of one account.
NextDaily ==
    \/ Tick
    \/ \E t \in Slots, u \in DailyUsers : cmd_start(t, u, 0)
    \/ \E u \in DailyUsers : process_captcha(u)
    \/ \E t \in Slots, u \in DailyUsers : daily_bonus_entry(t, u)
    \/ DailySteps

SpecDaily == Init /\ [][NextDaily]_vars

\* A in sequential execution: no handler is in flight.
Alone(A) == Quiet /\ A

\* The daily bonus in sequential execution: an update is taken, the clock
\* advances and the administrator acts only while no handler is in flight.
NextDailySeq ==
    \/ Alone(Tick)
    \/ \E u \in DailyUsers, key \in DailyKeys : Alone(admin_setting_ask(u, key))
    \/ \E u \in DailyUsers, key \in DailyKeys :
          \E value \in SettingTexts(key) : Alone(admin_setting_save(u, value))
    \/ \E t \in Slots, u \in DailyUsers : Alone(cmd_start(t, u, 0))
    \/ \E u \in DailyUsers : Alone(process_captcha(u))
    \/ \E t \in Slots, u \in DailyUsers : Alone(daily_bonus_entry(t, u))
    \/ DailySteps

SpecDailySeq == Init /\ [][NextDailySeq]_vars

\* The administrator in the promo specification, the rewards and the limits
\* typed for a promo.
PromoAdmins == {1}
PromoRewards == {5}
PromoLimits == {1, 0 - 1}

\* Promo redemption under concurrent updates of two accounts.
NextPromo ==
    \/ \E t \in Slots, u \in UserIds : cmd_start(t, u, 0)
    \/ \E t \in Slots : add_user_select(t)
    \/ \E t \in Slots : add_user_commit(t)
    \/ \E t \in Slots : cmd_start_captcha(t)
    \/ \E u \in UserIds : process_captcha(u)
    \/ \E u \in PromoAdmins, code \in Codes, reward \in PromoRewards :
          admin_promo_reward(u, code, reward)
    \/ \E u \in PromoAdmins, limit \in PromoLimits : admin_promo_limit(u, limit)
    \/ \E u \in UserIds : redeem_promo_ask(u)
    \/ \E t \in Slots, u \in UserIds, code \in Codes : redeem_promo_process(t, u, code)
    \/ \E t \in Slots : redeem_promo_select(t)
    \/ \E t \in Slots : redeem_promo_usage(t)
    \/ \E t \in Slots : redeem_promo_commit(t)

SpecPromo == Init /\ [][NextPromo]_vars

\* Promo redemption with the updates handled one after another.
NextPromoSeq ==
    \/ \E t \in Slots, u \in UserIds : Alone(cmd_start(t, u, 0))
    \/ \E t \in Slots : add_user_select(t)
    \/ \E t \in Slots : add_user_commit(t)
    \/ \E t \in Slots : cmd_start_captcha(t)
    \/ \E u \in UserIds : Alone(process_captcha(u))
    \/ \E u \in PromoAdmins, code \in Codes, reward \in PromoRewards :
          Alone(admin_promo_reward(u, code, reward))
    \/ \E u \in PromoAdmins, limit \in PromoLimits : Alone(admin_promo_limit(u, limit))
    \/ \E code \in Codes : Alone(admin_del_promo(code))
    \/ \E u \in UserIds : Alone(redeem_promo_ask(u))
    \/ \E t \in Slots, u \in UserIds, code \in Codes :
          Alone(redeem_promo_process(t, u, code))
    \/ \E t \in Slots : redeem_promo_select(t)
    \/ \E t \in Slots : redeem_promo_usage(t)
    \/ \E t \in Slots : redeem_promo_commit(t)

SpecPromoSeq == Init /\ [][NextPromoSeq]_vars

\* The administrator and the buyers of the shop specification, and what the
\* administrator types there.
ShopAdmins == {1}
ShopUsers == {1, 2}
ShopTypes == {"digital", "physical"}
ShopPrices == {"10"}
ShopStocks == {"1", "-1", "-2", "x"}
ShopAmounts == {"10"}
BuyIds == {1, 2}

\* The administrator opens a dialogue when no other one is open.
AtRest(u, A) == fsm[u].state = "none" /\ A

\* The shop under concurrent updates.
NextShop ==
    \/ \E t \in Slots, u \in ShopUsers : cmd_start(t, u, 0)
    \/ \E t \in Slots : add_user_select(t)
    \/ \E t \in Slots : add_user_commit(t)
    \/ \E t \in Slots : cmd_start_captcha(t)
    \/ \E u \in ShopUsers : process_captcha(u)
    \/ \E u \in ShopAdmins, target \in ShopUsers :
          AtRest(u, admin_give_balance_ask(u, target))
    \/ \E u \in ShopAdmins, text \in ShopAmounts : admin_give_balance_process(u, text)
    \/ \E u \in ShopAdmins, price \in ShopPrices, type \in ShopTypes :
          AtRest(u, admin_prod_content(u, price, type))
    \/ \E u \in ShopAdmins, text \in ShopStocks : admin_prod_stock(u, text)
    \/ \E u \in ShopAdmins, prod_id \in ProdIds :
          AtRest(u, admin_edit_field_chosen(u, prod_id, "stock"))
    \/ \E u \in ShopAdmins, text \in ShopStocks : admin_update_product(u, text)
    \/ \E t \in Slots, u \in ShopUsers, prod_id \in BuyIds : buy_product(t, u, prod_id)
    \/ \E t \in Slots : buy_product_prod(t)
    \/ \E t \in Slots : buy_product_user(t)
    \/ \E t \in Slots, u \in ShopUsers : receive_address(t, u)
    \/ \E t \in Slots : receive_address_prod(t)
    \/ \E t \in Slots : receive_address_user(t)
    \/ \E t \in Slots : process_purchase(t)

SpecShop == Init /\ [][NextShop]_vars

\* What the administrator types as an amount in the ledger specification.
LedgerAdmins == {1}
LedgerAmounts == {"10", "-5", "abc"}

\* Signup with referral and the administrator's balance changes.
NextLedger ==
    \/ \E t \in Slots, u \in UserIds, ref \in {0} \cup UserIds : cmd_start(t, u, ref)
    \/ \E t \in Slots : cmd_start_ref(t)
    \/ \E t \in Slots : add_user_select(t)
    \/ \E t \in Slots : add_user_commit(t)
    \/ \E t \in Slots : cmd_start_captcha(t)
    \/ \E u \in UserIds : process_captcha(u)
    \/ \E u \in LedgerAdmins, target \in UserIds :
          AtRest(u, admin_give_balance_ask(u, target))
    \/ \E u \in LedgerAdmins, text \in LedgerAmounts : admin_give_balance_process(u, text)

SpecLedger == Init /\ [][NextLedger]_vars

\* The buyer of the guarded-shop specification, and what the administrator
\* types there.
GuardUsers == {2}
GuardAmounts == {"10", "-5"}
GuardStocks == {"1", "-1"}
GuardPrices == {"10", "-5"}

\* The order ids the callbacks admin_deliver_order_<id> carry.
OrderIds == 1..MaxOrders

\* The shop with one buyer, whose balance the administrator raises and lowers
\* and whom the administrator bans and unbans.
NextShopGuard ==
    \/ \E t \in Slots, u \in GuardUsers : cmd_start(t, u, 0)
    \/ \E t \in Slots : add_user_select(t)
    \/ \E t \in Slots : add_user_commit(t)
    \/ \E t \in Slots : cmd_start_captcha(t)
    \/ \E u \in GuardUsers : process_captcha(u)
    \/ \E u \in ShopAdmins, target \in GuardUsers :
          AtRest(u, admin_give_balance_ask(u, target))
    \/ \E u \in ShopAdmins, text \in GuardAmounts : admin_give_balance_process(u, text)
    \/ \E target \in GuardUsers : admin_ban_user(target)
    \/ \E u \in ShopAdmins, price \in GuardPrices, type \in ShopTypes :
          AtRest(u, admin_prod_content(u, price, type))
    \/ \E u \in ShopAdmins, text \in GuardStocks : admin_prod_stock(u, text)
    \/ \E t \in Slots, u \in GuardUsers, prod_id \in ProdIds : buy_product(t, u, prod_id)
    \/ \E t \in Slots : buy_product_prod(t)
    \/ \E t \in Slots : buy_product_user(t)
    \/ \E t \in Slots, u \in GuardUsers : receive_address(t, u)
    \/ \E t \in Slots : receive_address_prod(t)
    \/ \E t \in Slots : receive_address_user(t)
    \/ \E t \in Slots : process_purchase(t)
    \/ \E order_id \in OrderIds : admin_deliver_order(order_id)

SpecShopGuard == Init /\ [][NextShopGuard]_vars

\* The administrator of the task specification and what is typed for a task;
\* do_task_<id> callbacks carry the ids of DoTaskIds.
TaskAdmins == {1}
TaskDescs == {"join"}
TaskRewards == {"5", "abc"}
DoTaskIds == {1, 2}

\* Task completion under concurrent updates of two accounts.
NextTask ==
    \/ \E t \in Slots, u \in UserIds : cmd_start(t, u, 0)
    \/ \E t \in Slots : add_user_select(t)
    \/ \E t \in Slots : add_user_commit(t)
    \/ \E t \in Slots : cmd_start_captcha(t)
    \/ \E u \in UserIds : process_captcha(u)
    \/ \E u \in TaskAdmins, desc \in TaskDescs : AtRest(u, admin_task_link(u, desc))
    \/ \E u \in TaskAdmins, text \in TaskRewards : admin_task_reward(u, text)
    \/ \E t \in Slots, u \in UserIds, task_id \in DoTaskIds : do_task(t, u, task_id)
    \/ \E t \in Slots : do_task_task(t)
    \/ \E t \in Slots : do_task_completed(t)
    \/ \E t \in Slots : do_task_commit(t)

SpecTask == Init /\ [][NextTask]_vars

\* The account of the scratch specifications; the administrator and the texts
\* typed for scratch_rewards.
ScratchUsers == {1}
ScratchAdmins == {2}
ScratchTexts == {"5,10", "-5", "", "abc"}

\* The scratch card under concurrent updates of one account.
NextScratch ==
    \/ Tick
    \/ \E t \in Slots, u \in ScratchUsers : cmd_start(t, u, 0)
    \/ \E t \in Slots : add_user_select(t)
    \/ \E t \in Slots : add_user_commit(t)
    \/ \E t \in Slots : cmd_start_captcha(t)
    \/ \E u \in ScratchUsers : process_captcha(u)
    \/ \E t \in Slots, u \in ScratchUsers : scratch_card_entry(t, u)
    \/ \E t \in Slots : scratch_card_enabled(t)
    \/ \E t \in Slots : scratch_card_select(t)
    \/ \E t \in Slots : scratch_card_rewards(t)
    \/ \E t \in Slots : scratch_card_commit(t)

SpecScratch == Init /\ [][NextScratch]_vars

\* The scratch card with the updates handled one after another, while the
\* administrator changes the reward list.
NextScratchList ==
    \/ Alone(Tick)
    \/ \E t \in Slots, u \in ScratchUsers : Alone(cmd_start(t, u, 0))
    \/ \E t \in Slots : add_user_select(t)
    \/ \E t \in Slots : add_user_commit(t)
    \/ \E t \in Slots : cmd_start_captcha(t)
    \/ \E u \in ScratchUsers : Alone(process_captcha(u))
    \/ \E u \in ScratchAdmins : Alone(AtRest(u, admin_setting_ask(u, "scratch_rewards")))
    \/ \E u \in ScratchAdmins, value \in ScratchTexts : Alone(admin_setting_save(u, value))
    \/ \E t \in Slots, u \in ScratchUsers : Alone(scratch_card_entry(t, u))
    \/ \E t \in Slots : scratch_card_enabled(t)
    \/ \E t \in Slots : scratch_card_select(t)
    \/ \E t \in Slots : scratch_card_rewards(t)
    \/ \E t \in Slots : scratch_card_commit(t)

SpecScratchList == Init /\ [][NextScratchList]_vars

\* The account and the administrator of the rewards specification, and the
\* switches the administrator sets there.
RewardUsers == {1}
RewardAdmins == {2}
RewardKeys == {"daily_bonus_enabled", "scratch_enabled"}
RewardSwitch == {"1", "0"}

\* The four reward operations of one account with the updates handled one
\* after another, while the administrator switches the features, creates a
\* task and a promo.
NextRewards ==
    \/ \E t \in Slots, u \in RewardUsers : Alone(cmd_start(t, u, 0))
    \/ \E t \in Slots : add_user_select(t)
    \/ \E t \in Slots : add_user_commit(t)
    \/ \E t \in Slots : cmd_start_captcha(t)
    \/ \E u \in RewardUsers : Alone(process_captcha(u))
    \/ \E u \in RewardAdmins, key \in RewardKeys :
          Alone(AtRest(u, admin_setting_ask(u, key)))
    \/ \E u \in RewardAdmins, value \in RewardSwitch : Alone(admin_setting_save(u, value))
    \/ \E u \in RewardAdmins, desc \in TaskDescs : Alone(AtRest(u, admin_task_link(u, desc)))
    \/ \E u \in RewardAdmins : Alone(admin_task_reward(u, "5"))
    \/ \E u \in RewardAdmins, code \in Codes, reward \in PromoRewards :
          Alone(AtRest(u, admin_promo_reward(u, code, reward)))
    \/ \E u \in RewardAdmins, limit \in PromoLimits : Alone(admin_promo_limit(u, limit))
    \/ \E t \in Slots, u \in RewardUsers : Alone(daily_bonus_entry(t, u))
    \/ \E t \in Slots : daily_bonus_enabled(t)
    \/ \E t \in Slots : daily_bonus_select(t)
    \/ \E t \in Slots : daily_bonus_amount(t)
    \/ \E t \in Slots : daily_bonus_commit(t)
    \/ \E t \in Slots, u \in RewardUsers : Alone(scratch_card_entry(t, u))
    \/ \E t \in Slots : scratch_card_enabled(t)
    \/ \E t \in Slots : scratch_card_select(t)
    \/ \E t \in Slots : scratch_card_rewards(t)
    \/ \E t \in Slots : scratch_card_commit(t)
    \/ \E t \in Slots, u \in RewardUsers, task_id \in TaskIds : Alone(do_task(t, u, task_id))
    \/ \E t \in Slots : do_task_task(t)
    \/ \E t \in Slots : do_task_completed(t)
    \/ \E t \in Slots : do_task_commit(t)
    \/ \E u \in RewardUsers : Alone(AtRest(u, redeem_promo_ask(u)))
    \/ \E t \in Slots, u \in RewardUsers, code \in Codes :
          Alone(redeem_promo_process(t, u, code))
    \/ \E t \in Slots : redeem_promo_select(t)
    \/ \E t \in Slots : redeem_promo_usage(t)
    \/ \E t \in Slots : redeem_promo_commit(t)

SpecRewards == Init /\ [][NextRewards]_vars

\* ADMIN_ID = os.getenv("ADMIN_ID"): the administrator's Telegram id.
ADMIN_ID == 1

\* The amounts and the setting typed in the senders specification.
SenderAmounts == {"10"}
SenderKeys == {"shop_enabled"}
SenderSwitch == {"1", "0"}

\* The administrator's balance and setting dialogues, with the callbacks and
\* the messages sent by any account.
NextSenders ==
    \/ \E t \in Slots, u \in UserIds : cmd_start(t, u, 0)
    \/ \E t \in Slots : add_user_select(t)
    \/ \E t \in Slots : add_user_commit(t)
    \/ \E t \in Slots : cmd_start_captcha(t)
    \/ \E u \in UserIds : process_captcha(u)
    \/ \E u \in UserIds, target \in UserIds : AtRest(u, admin_give_balance_ask(u, target))
    \/ \E u \in UserIds, text \in SenderAmounts : admin_give_balance_process(u, text)
    \/ \E u \in UserIds, key \in SenderKeys : AtRest(u, admin_setting_ask(u, key))
    \/ \E u \in UserIds, value \in SenderSwitch : admin_setting_save(u, value)

SpecSenders == Init /\ [][NextSenders]_vars

\* What the administrator types for shop_enabled, for a price and for a stock in
\* the shop-gate specification.
GateSwitch == {"1", "0"}
GatePrices == {"10"}
GateStocks == {"1"}

\* The shop with one buyer while the administrator switches shop_enabled; the
\* administrator saves a setting while no handler is in flight.
NextShopGate ==
    \/ \E t \in Slots, u \in GuardUsers : cmd_start(t, u, 0)
    \/ \E t \in Slots : add_user_select(t)
    \/ \E t \in Slots : add_user_commit(t)
    \/ \E t \in Slots : cmd_start_captcha(t)
    \/ \E u \in GuardUsers : process_captcha(u)
    \/ \E u \in ShopAdmins : AtRest(u, admin_setting_ask(u, "shop_enabled"))
    \/ \E u \in ShopAdmins, value \in GateSwitch : Alone(admin_setting_save(u, value))
    \/ \E u \in ShopAdmins, target \in GuardUsers :
          AtRest(u, admin_give_balance_ask(u, target))
    \/ \E u \in ShopAdmins, text \in ShopAmounts : admin_give_balance_process(u, text)
    \/ \E u \in ShopAdmins, price \in GatePrices, type \in ShopTypes :
          AtRest(u, admin_prod_content(u, price, type))
    \/ \E u \in ShopAdmins, text \in GateStocks : admin_prod_stock(u, text)
    \/ \E t \in Slots, u \in GuardUsers, prod_id \in ProdIds : buy_product(t, u, prod_id)
    \/ \E t \in Slots : buy_product_prod(t)
    \/ \E t \in Slots : buy_product_user(t)
    \/ \E t \in Slots, u \in GuardUsers : receive_address(t, u)
    \/ \E t \in Slots : receive_address_prod(t)
    \/ \E t \in Slots : receive_address_user(t)
    \/ \E t \in Slots : process_purchase(t)

SpecShopGate == Init /\ [][NextShopGate]_vars

----------------------------------------------------------------------------
(* Properties *)

\* The handler h in slot t returns or raises in this step.
Finishing(t, h) == run[t].h = h /\ ~Free(t) /\ run'[t].pc = "done"

\* The slot t holds a finished invocation of h with outcome r.
Done(t, h, r) == run[t].h = h /\ run[t].pc = "done" /\ run[t].res = r

\* The ids of u's transaction rows of the given type.
Rows(u, type) ==
    {i \in 1..Len(transactions) :
        transactions[i].user_id = u /\ transactions[i].type = type}

\* C4 (as claimed): two claimDaily events of one account that run on the same
\* day, however they interleave, end with one credit: they are never both
\* credited.
C4_ConcurrentDailyOneCredit ==
    \A t1, t2 \in Slots :
        (/\ t1 # t2
         /\ Done(t1, "daily_bonus", "credited")
         /\ run[t2].h = "daily_bonus" /\ run[t2].pc = "done"
         /\ run[t1].uid = run[t2].uid
         /\ run[t1].today = run[t2].today
         /\ users[run[t1].uid] # Nil)
        => run[t2].res # "credited"

\* The claim of slot t leaves the ledger and the claim record as they are.
DailyRejected(t) ==
    /\ run'[t].res \in {"already", "disabled"}
    /\ UNCHANGED <<users, transactions, daily_bonus>>

C6_DailyClaimSucceeds ==
    [][\A t \in Slots :
         LET u == run[t].uid
             amount == Float(settings.daily_bonus_amount)
         IN  (/\ Finishing(t, "daily_bonus")
              /\ settings.daily_bonus_enabled = "1"
              /\ IsFloat(settings.daily_bonus_amount)
              /\ users[u] # Nil
              /\ \A i \in Rows(u, "daily_bonus") :
                    now - transactions[i].created_at >= TicksPerDay)
             => /\ run'[t].res = "credited"
                /\ users' = [users EXCEPT ![u].balance = @ + amount]
                /\ transactions' = Append(transactions,
                                          TxRow(u, amount, "daily_bonus", "Daily bonus"))
                /\ daily_bonus' = [daily_bonus EXCEPT ![u] = DateOf(now)]]_vars

\* C6 witness: an existing account was credited a second time, at least 24h
\* after the first credit.
C6_Witness ==
    \E t \in Slots :
        /\ Done(t, "daily_bonus", "credited")
        /\ users[run[t].uid] # Nil
        /\ \E i, j \in Rows(run[t].uid, "daily_bonus") :
              /\ i < j
              /\ j = Len(transactions)
              /\ transactions[j].created_at - transactions[i].created_at >= TicksPerDay
              /\ users[run[t].uid].balance >= transactions[i].amount + transactions[j].amount

\* The ids of u's promo transaction rows for the code.
PromoRows(u, code) ==
    {i \in Rows(u, "promo") : transactions[i].description = code}

\* C7: however two redeemPromo events of one account for one code interleave,
\* the pair (account, code) gets one promo_usage row, one promo transaction row
\* and one credit: a redemption is committed only when no usage row of the
\* pair exists, and it then adds the usage row, credits the reward read,
\* appends one promo transaction row and raises used_count by 1; every other
\* outcome leaves balances, promos, promo_usage and transactions alone.
C7_PromoOncePerAccount ==
    /\ [](\A u \in UserIds, code \in Codes :
            /\ Cardinality(PromoRows(u, code)) <= 1
            /\ (PromoRows(u, code) # {}) <=> (<<u, code>> \in promo_usage))
    /\ [][\A t \in Slots :
            Finishing(t, "redeem_promo_process") =>
              LET u == run[t].uid
                  code == run[t].code
              IN IF run'[t].res = "redeemed"
                 THEN /\ <<u, code>> \notin promo_usage
                      /\ promo_usage' = promo_usage \cup {<<u, code>>}
                      /\ users' = AddBalance(users, u, run[t].row.reward)
                      /\ transactions' = Append(transactions,
                                                TxRow(u, run[t].row.reward, "promo", code))
                      /\ promos[code] # Nil =>
                            promos'[code] = [promos[code] EXCEPT !.used_count = @ + 1]
                 ELSE UNCHANGED <<users, promos, promo_usage, transactions>>]_vars

\* C7 witness: of two redemptions of one code by one existing account that ran
\* concurrently, one was committed and the other hit the primary key.
C7_Witness ==
    \E t1, t2 \in Slots :
        /\ Done(t1, "redeem_promo_process", "redeemed")
        /\ Done(t2, "redeem_promo_process", "IntegrityError")
        /\ run[t1].uid = run[t2].uid
        /\ run[t1].code = run[t2].code
        /\ users[run[t1].uid] # Nil
        /\ users[run[t1].uid].balance > 0

\* C8 (as claimed): a promo with a bounded max_usage never has used_count above
\* max_usage, also when different existing accounts redeem it concurrently.
C8_UsedCountWithinLimit ==
    \A code \in Codes :
        (/\ promos[code] # Nil
         /\ promos[code].max_usage # 0 - 1
         /\ \A pair \in promo_usage : users[pair[1]] # Nil)
        => promos[code].used_count <= promos[code].max_usage

\* The sum of the amounts of the rows of a sequence of transaction rows.
RECURSIVE SumAmounts(_)
SumAmounts(rows) == IF rows = <<>> THEN 0 ELSE Head(rows).amount + SumAmounts(Tail(rows))

\* The transaction rows recorded for account u.
LedgerOf(u) == SelectSeq(transactions, LAMBDA r : r.user_id = u)

\* C1: in every reachable state each account's balance equals the sum of the
\* amounts of the transaction rows recorded for that account.
C1_BalanceIsLedgerSum ==
    \A u \in UserIds : users[u] # Nil => users[u].balance = SumAmounts(LedgerOf(u))

\* C2: in every reachable state every account's balance is >= 0.
C2_BalanceNeverNegative ==
    \A u \in UserIds : users[u] # Nil => users[u].balance >= 0

\* C3: in every reachable state every product's stock is the sentinel -1 or an
\* integer >= 0.
C3_StockAtLeastSentinel ==
    \A p \in ProdIds : products[p] # Nil => products[p].stock >= 0 - 1

\* The handlers that attempt a purchase.
PurchaseHandlers == {"buy_product", "receive_address"}

\* Slot t, in the middle of a purchase attempt, takes this step.
PurchaseStep(t) ==
    /\ run[t].h \in PurchaseHandlers
    /\ ~Free(t)
    /\ run'[t] # run[t]

\* This step appends exactly one purchase transaction of -price and exactly
\* one order row, both for the account and the product of slot t.
OnePurchaseRecorded(t) ==
    /\ Len(transactions') = Len(transactions) + 1
    /\ SubSeq(transactions', 1, Len(transactions)) = transactions
    /\ LET tx == transactions'[Len(transactions')]
       IN /\ tx.user_id = run[t].uid
          /\ tx.type = "purchase"
          /\ tx.amount = 0 - run[t].row.price
    /\ Len(orders') = Len(orders) + 1
    /\ SubSeq(orders', 1, Len(orders)) = orders
    /\ LET o == orders'[Len(orders')]
       IN o.user_id = run[t].uid /\ o.product_id = run[t].arg

\* C9: every step of a purchase attempt either adds no transaction row and no
\* order row, or is the success of the attempt and adds exactly one purchase
\* transaction with amount = -price and exactly one order row for that account
\* and product; an attempt that does not succeed has added nothing.
C9_PurchaseAllOrNothing ==
    [][\A t \in Slots : PurchaseStep(t) =>
          IF run'[t].res = "purchased"
          THEN OnePurchaseRecorded(t)
          ELSE transactions' = transactions /\ orders' = orders]_vars

\* A purchase attempt has failed the stock check, and another has gone past
\* every check into process_purchase and ended.
C9_Witness ==
    /\ run[1].h \in PurchaseHandlers /\ run[1].pc = "done" /\ run[1].res = "out_of_stock"
    /\ run[2].h \in PurchaseHandlers /\ run[2].pc = "done" /\ run[2].res = "NameError"

\* The number of orders created for product p.
OrdersOf(p) == Len(SelectSeq(orders, LAMBDA o : o.product_id = p))

C11_PurchaseWritesTogether ==
    [][\A t \in Slots : PurchaseStep(t) =>
          LET debited == users' # users
              decremented == products' # products
          IN /\ debited => (Len(orders') = Len(orders) + 1
                            /\ Len(transactions') = Len(transactions) + 1)
             /\ decremented => debited
             /\ (orders' # orders \/ transactions' # transactions) => debited]_vars

\* A purchase by an account that holds the price of a product in stock has
\* failed inside process_purchase, and no order exists.
C11_Witness ==
    /\ \E t \in Slots : run[t].h = "buy_product" /\ run[t].pc = "done"
                        /\ run[t].res = "NameError"
    /\ users[2] # Nil /\ users[2].balance = 10
    /\ products[1] # Nil /\ products[1].stock = 1 /\ products[1].type = "digital"
    /\ orders = <<>>

\* C12: a purchase of a digital or file product by an existing, non-banned
\* account with balance >= price and bounded stock >= 1 succeeds: the balance
\* decreases by the price, total_spent increases by the price and the stock
\* decreases by 1.
C12_DigitalPurchaseSucceeds ==
    [][\A t \in Slots :
          LET f == run[t]
          IN (/\ f.h = "buy_product" /\ f.pc = "process_purchase"
              /\ run'[t] # f
              /\ users[f.uid] # Nil /\ users[f.uid].banned = 0
              /\ users[f.uid].balance >= f.row.price
              /\ products[f.arg] = f.row
              /\ f.row.type \in {"digital", "file"} /\ f.row.stock >= 1)
             => /\ run'[t].res = "purchased"
                /\ users'[f.uid].balance = users[f.uid].balance - f.row.price
                /\ users'[f.uid].total_spent = users[f.uid].total_spent + f.row.price
                /\ products'[f.arg].stock = f.row.stock - 1]_vars

\* C13: a step of a handler of a user's update leaves the stock of a product
\* at -1 when it was -1: purchases never write the stock of such a product.
C13_UnboundedStockUntouched ==
    [][\A p \in ProdIds :
          (run' # run /\ products[p] # Nil /\ products[p].stock = 0 - 1)
             => products'[p] = products[p]]_vars

\* Two purchase attempts on a product of stock -1 have gone through
\* process_purchase and the stock is -1.
C13_Witness ==
    /\ products[1] # Nil /\ products[1].stock = 0 - 1
    /\ \A t \in Slots : run[t].h \in PurchaseHandlers /\ run[t].pc = "done"
                        /\ run[t].res = "NameError"

\* C14: a purchase whose account balance is below the price when
\* process_purchase runs fails with insufficient funds and leaves users,
\* products, orders and transactions unchanged, for buy_product and for
\* receive_address.
C14_InsufficientFundsRejected ==
    [][\A t \in Slots :
          LET f == run[t]
          IN (/\ f.h \in PurchaseHandlers /\ f.pc = "process_purchase"
              /\ run'[t] # f
              /\ users[f.uid] # Nil /\ f.row # Nil
              /\ users[f.uid].balance < f.row.price)
             => /\ run'[t].res = "insufficient"
                /\ UNCHANGED <<users, products, orders, transactions>>]_vars

\* C15: a buy_product attempt by a banned account, or by a sender with no
\* account row, ends at the checks of buy_product: it is not asked for an
\* address, it does not reach process_purchase, and nothing changes.
C15_BannedOrMissingRejected ==
    [][\A t \in Slots :
          LET f == run[t]
          IN (/\ f.h = "buy_product" /\ f.pc = "b_user"
              /\ run'[t] # f
              /\ (users[f.uid] = Nil \/ users[f.uid].banned = 1))
             => /\ run'[t].pc = "done"
                /\ run'[t].res # "ask_address"
                /\ UNCHANGED <<db, fsm>>]_vars

\* C16: with the updates handled one after another, the used_count of a promo
\* row of bounded max_usage n never exceeds n; a redemption that succeeds for
\* an account credits exactly the reward and raises used_count by 1 from a
\* value below n, so at most n accounts succeed on the row; and once
\* used_count = max_usage a redemption by any account fails with limit reached
\* and changes no table.
C16_SequentialPromoLimit ==
    /\ [](\A c \in Codes :
            (promos[c] # Nil /\ promos[c].max_usage # 0 - 1)
               => promos[c].used_count <= promos[c].max_usage)
    /\ [][\A t \in Slots :
            LET f == run[t]
            IN /\ (/\ At(t, "redeem_promo_process", "r_commit")
                   /\ run'[t].res = "redeemed"
                   /\ users[f.uid] # Nil /\ promos[f.code] # Nil)
                  => /\ users'[f.uid].balance = users[f.uid].balance + promos[f.code].reward
                     /\ promos'[f.code].used_count = promos[f.code].used_count + 1
                     /\ (promos[f.code].max_usage # 0 - 1
                           => promos[f.code].used_count < promos[f.code].max_usage)
               /\ (/\ At(t, "redeem_promo_process", "r_select")
                   /\ run'[t] # f
                   /\ promos[f.code] # Nil
                   /\ promos[f.code].max_usage # 0 - 1
                   /\ promos[f.code].used_count >= promos[f.code].max_usage)
                  => /\ run'[t].pc = "done" /\ run'[t].res = "limit"
                     /\ UNCHANGED db]_vars

\* The first account has redeemed a promo of max_usage 1 and the second
\* account has been refused with limit reached.
C16_Witness ==
    /\ promos["WELCOME5"] # Nil
    /\ promos["WELCOME5"].max_usage = 1 /\ promos["WELCOME5"].used_count = 1
    /\ users[1] # Nil /\ users[1].balance = 5 /\ <<1, "WELCOME5">> \in promo_usage
    /\ users[2] # Nil /\ users[2].balance = 0
    /\ \E t \in Slots : Done(t, "redeem_promo_process", "limit") /\ run[t].uid = 2

\* The accounts whose referrer_id is r.
ReferredBy(r) == {u \in UserIds : users[u] # Nil /\ users[u].referrer_id = r}

\* C17: every account has as many referral transaction rows as there are
\* accounts created with it as referrer, and a step that credits a referral
\* bonus is the step that creates the referred account: a /start of an account
\* that exists, with any argument and in any interleaving, credits nothing.
C17_ReferralOncePerAccount ==
    /\ [](\A r \in UserIds : Cardinality(Rows(r, "referral")) = Cardinality(ReferredBy(r)))
    /\ [][\A r \in UserIds :
            (\/ Rows(r, "referral")' # Rows(r, "referral")
             \/ (users[r] # Nil /\ run' # run /\ users'[r].balance # users[r].balance))
               => \E u \in UserIds \ {r} :
                     /\ users[u] = Nil /\ users'[u] # Nil /\ users'[u].referrer_id = r
                     /\ Len(transactions') = Len(transactions) + 1
                     /\ users[r] # Nil
                     /\ users'[r].balance =
                           users[r].balance + transactions'[Len(transactions')].amount]_vars

\* The second account was created with the first as referrer and credited it
\* once; a concurrent /start of the second account failed on the primary key
\* and a later /start with the referral argument has ended.
C17_Witness ==
    /\ users[1] # Nil /\ users[2] # Nil /\ users[2].referrer_id = 1
    /\ Cardinality(Rows(1, "referral")) = 1
    /\ run[1].h = "cmd_start" /\ run[1].pc = "done" /\ run[1].uid = 2 /\ run[1].res = "ok"
    /\ run[2].h = "cmd_start" /\ run[2].pc = "done" /\ run[2].uid = 2
    /\ run[2].res = "IntegrityError"

\* The transaction rows of account u for task k.
TaskRows(u, k) ==
    {i \in Rows(u, "task") : tasks[k] # Nil /\ transactions[i].description = tasks[k].description}

C19_OneScratchPer24h ==
    \A u \in UserIds :
        (users[u] # Nil /\ users[u].balance = SumAmounts(LedgerOf(u))) =>
            \A i, j \in Rows(u, "scratch") :
                i < j => transactions[j].created_at - transactions[i].created_at
                            >= TicksPerDay

\* C20: the amount a scratch card draws is a member of the list the setting
\* scratch_rewards holds at that moment and is strictly positive, and with an
\* empty list the claim fails and changes no table.
C20_ScratchAmountConfigured ==
    [][\A t \in Slots :
          (At(t, "scratch_card", "sc_rewards") /\ run'[t] # run[t])
             => IF Listed(settings.scratch_rewards) = {}
                THEN run'[t].pc = "done" /\ UNCHANGED db
                ELSE /\ run'[t].amount \in Listed(settings.scratch_rewards)
                     /\ run'[t].amount > 0]_vars

\* The handlers of the four reward operations, and the outcomes with which
\* they credit the account.
RewardHandlers == {"daily_bonus", "scratch_card", "do_task", "redeem_promo_process"}
RewardCredited == {"credited", "completed", "redeemed"}

\* The slot t takes a step of a reward operation that is not its crediting
\* commit: a read, or the step with which the operation fails.
RewardStepWithoutCredit(t) ==
    /\ run[t].h \in RewardHandlers
    /\ ~Free(t)
    /\ run'[t] # run[t]
    /\ ~(run'[t].pc = "done" /\ run'[t].res \in RewardCredited)

\* C21: a reward operation that fails (feature disabled, already claimed, task
\* not found or already completed, promo not found, expired, at its limit or
\* already used, a key conflict at the INSERT) changes nothing: no step of it
\* other than a crediting commit changes balances, transactions, the claim
\* records, promo_usage, completed_tasks or the promos.
C21_FailedRewardChangesNothing ==
    [][\A t \in Slots :
          RewardStepWithoutCredit(t) =>
              UNCHANGED <<users, transactions, daily_bonus, daily_scratch, promo_usage,
                          completed_tasks, promos>>]_vars

\* C21 happens: a second redemption of a promo without limit was refused as
\* used, after the first one credited the account.
C21_Witness ==
    \E t \in Slots :
        /\ Done(t, "redeem_promo_process", "used")
        /\ <<run[t].uid, run[t].code>> \in promo_usage
        /\ promos[run[t].code] # Nil
        /\ promos[run[t].code].used_count = 1
        /\ Cardinality(Rows(run[t].uid, "promo")) = 1

\* The slot t takes a step of buy_product for a product that is physical or
\* not read yet: a step before the buyer's address message.
BeforeAddress(t) ==
    /\ run[t].h = "buy_product"
    /\ ~Free(t)
    /\ run'[t] # run[t]
    /\ run[t].row # Nil => run[t].row.type = "physical"

\* C22: for a physical product nothing is committed before the address
\* message: no step of buy_product for it changes a balance, a stock, the
\* orders or the transactions; it ends with the buyer in waiting_for_address.
C22_NothingBeforeAddress ==
    [][\A t \in Slots :
          BeforeAddress(t) => UNCHANGED <<users, products, orders, transactions>>]_vars

\* C22 happens: a buyer who can pay for a physical product in stock has been
\* asked for the address, and no order and no transaction exists.
C22_Witness ==
    \E t \in Slots, u \in GuardUsers :
        /\ Done(t, "buy_product", "ask_address")
        /\ fsm[u].state = "waiting_for_address"
        /\ products[fsm[u].data.buy_prod_id].type = "physical"
        /\ users[u].balance >= products[fsm[u].data.buy_prod_id].price
        /\ orders = <<>>
        /\ transactions = <<>>

\* The slot t ends a purchase in this step: process_purchase was called with
\* the rows of an account that can pay and of a product that is not out of
\* stock, and returns or raises.
PaidPurchaseEnds(t) ==
    /\ run[t].pc = "process_purchase"
    /\ run[t].row # Nil /\ run[t].user # Nil
    /\ run[t].user.balance >= run[t].row.price
    /\ ~OutOfStock(run[t].row)
    /\ run'[t].pc = "done"

Pending(i) == i \in DOMAIN orders /\ orders[i].status = "pending"

\* A step of the administrator that moves the pending order i to delivered,
\* and a step of the bot that moves it to rejected.
DeliverStep(i) == Pending(i) /\ admin_deliver_order(i) /\ orders'[i].status = "delivered"
RejectStep(i) == Pending(i) /\ NextShopGuard /\ orders'[i].status = "rejected"

\* C25 (as claimed): the address message of a buyer of a physical product
\* leaves a pending order, and from every pending order a step to delivered
\* and a step to rejected are both available.
C25_PendingOrderBothTransitions ==
    [][/\ \A t \in Slots :
             PaidPurchaseEnds(t) /\ run[t].row.type = "physical" =>
                 \E i \in DOMAIN orders' : orders'[i].status = "pending"
       /\ \A i \in OrderIds :
             Pending(i) => (ENABLED DeliverStep(i)) /\ (ENABLED RejectStep(i))]_vars

\* The purchase transaction rows recorded for account u, and the sum of the
\* absolute amounts of a sequence of rows.
PurchasesOf(u) ==
    SelectSeq(transactions, LAMBDA r : r.user_id = u /\ r.type = "purchase")

RECURSIVE SumAbsAmounts(_)
SumAbsAmounts(rows) ==
    IF rows = <<>> THEN 0
    ELSE (IF Head(rows).amount < 0 THEN 0 - Head(rows).amount ELSE Head(rows).amount)
         + SumAbsAmounts(Tail(rows))

C28_ReferrerFixedAtCreation ==
    [][\A u \in UserIds :
          /\ users[u] # Nil =>
                users'[u] # Nil /\ users'[u].referrer_id = users[u].referrer_id
          /\ (users[u] = Nil /\ users'[u] # Nil /\ users'[u].referrer_id # 0) =>
                /\ users'[u].referrer_id \in UserIds \ {u}
                /\ users[users'[u].referrer_id] # Nil]_vars

\* C28 happens: the second account was created with the first as referrer, and
\* a later /start of the second account without that argument has ended.
C28_Witness ==
    /\ users[1] # Nil /\ users[2] # Nil /\ users[2].referrer_id = 1
    /\ \E t \in Slots :
          Done(t, "cmd_start", "ok") /\ run[t].uid = 2 /\ run[t].arg = 0

\* C29: the transaction log is append-only and accounts are never deleted:
\* every step keeps each transaction row as it was, at its place, and keeps
\* the row of every account that exists.
C29_AppendOnlyLedger ==
    [][/\ Len(transactions') >= Len(transactions)
       /\ SubSeq(transactions', 1, Len(transactions)) = transactions
       /\ \A u \in UserIds : users[u] # Nil => users'[u] # Nil]_vars

\* C29 happens: an account has two transaction rows of different kinds and a
\* later operation of the account has ended without a credit.
C29_Witness ==
    /\ Len(transactions) >= 2
    /\ transactions[1].type # transactions[2].type
    /\ \A u \in RewardUsers : users[u] # Nil
    /\ \E t \in Slots :
          /\ run[t].h \in RewardHandlers /\ run[t].pc = "done"
          /\ run[t].res \notin RewardCredited

\* C30 (as claimed): no step lowers the used_count of a promo code, the
\* administrator's creation of a promo whose code exists included.
C30_UsedCountNeverDecreases ==
    [][\A c \in Codes :
          (promos[c] # Nil /\ promos'[c] # Nil) =>
              promos'[c].used_count >= promos[c].used_count]_vars

\* The administrator a sends the amount of a balance adjustment in this step:
\* a is in waiting_for_balance_change and no handler frame moves.
BalanceAdjustment(a) ==
    /\ fsm[a].state = "waiting_for_balance_change"
    /\ run' = run
    /\ users[fsm[a].data.target_user_id] # Nil

\* C31 (as claimed): an administrative balance adjustment either leaves the
\* balance and the transactions as they were, or moves the balance to a value
\* >= 0 and appends one transaction row of the account whose amount is the
\* balance delta.
C31_AdjustmentKeepsLedger ==
    [][\A a \in LedgerAdmins :
          BalanceAdjustment(a) =>
              LET u == fsm[a].data.target_user_id
                  delta == users'[u].balance - users[u].balance
              IN IF delta = 0
                 THEN transactions' = transactions
                 ELSE /\ users'[u].balance >= 0
                      /\ Len(transactions') = Len(transactions) + 1
                      /\ SubSeq(transactions', 1, Len(transactions)) = transactions
                      /\ transactions'[Len(transactions')].user_id = u
                      /\ transactions'[Len(transactions')].amount = delta]_vars

\* C32 (as claimed): process_purchase has the account row its caller loaded: a
\* purchase that passed the caller's checks ends as purchased, with the
\* balance of the account set to the loaded balance minus the price.
C32_PurchaseReachesCommit ==
    [][\A t \in Slots :
          PaidPurchaseEnds(t) =>
              /\ run'[t].res = "purchased"
              /\ users'[run[t].uid] # Nil
              /\ users'[run[t].uid].balance = run[t].user.balance - run[t].row.price]_vars

\* The states of AdminStates in which a message of the sender is taken as the
\* value of a balance adjustment or of a setting.
AdminValueStates == {"waiting_for_balance_change", "waiting_for_setting_value"}

\* C33 (as claimed): administrative effects happen only for the administrator:
\* a message that completes a balance adjustment or a setting change changes
\* the store only when its sender is ADMIN_ID.
C33_OnlyAdministratorChangesStore ==
    [][\A u \in UserIds :
          (fsm[u].state \in AdminValueStates /\ run' = run /\ fsm'[u] # fsm[u]) =>
              (u = ADMIN_ID \/ UNCHANGED db)]_vars

\* C34 (as claimed): every transaction row, daily-bonus record, scratch
\* record, completed-task row and promo-usage row refers to an account that
\* exists.
C34_RowsReferToAccounts ==
    /\ \A i \in 1..Len(transactions) : users[transactions[i].user_id] # Nil
    /\ \A u \in UserIds : daily_bonus[u] # NoDate => users[u] # Nil
    /\ \A u \in UserIds : daily_scratch[u] # NoDate => users[u] # Nil
    /\ \A r \in completed_tasks : users[r[1]] # Nil
    /\ \A r \in promo_usage : users[r[1]] # Nil

\* The promo_usage rows of a code.
UsageOf(c) == {r \in promo_usage : r[2] = c}

\* C35 (as claimed): in every reachable state the used_count of every promo
\* equals the number of promo_usage rows of its code.
C35_UsedCountIsUsageRows ==
    \A c \in Codes : promos[c] # Nil => promos[c].used_count = Cardinality(UsageOf(c))

\* C36 (as claimed): when receive_address has handled the address message of
\* a user, the user is no longer in waiting_for_address, so a later message of
\* the user starts no further purchase attempt.
C36_AddressConsumedOnce ==
    [][\A t \in Slots :
          Finishing(t, "receive_address") =>
              fsm'[run[t].uid].state # "waiting_for_address"]_vars

\* C37 (as claimed): every promo redemption attempt, whatever its outcome,
\* ends with the conversation state of its sender cleared: the sender is not
\* in waiting_for_promo, so its next message is not taken as a promo code.
C37_RedemptionClearsState ==
    [][\A t \in Slots :
          Finishing(t, "redeem_promo_process") =>
              fsm'[run[t].uid].state # "waiting_for_promo"]_vars

====
